---- MODULE Spec2Model ----
(***************************************************************************)
(* A model of build_readme.py: the marker substitution (replace_chunk),    *)
(* the fallback extraction (extract_current_stats), the two aggregators    *)
(* (fetch_releases, fetch_github_stats) and main.                          *)
(*                                                                         *)
(* Text is a sequence of atoms.  An atom is a TLA+ string holding a piece  *)
(* of text that the regular expressions of the program treat as a unit: a  *)
(* comment delimiter, a word, one whitespace character, one digit, one     *)
(* backslash.  The text a sequence stands for is the concatenation of its  *)
(* atoms.  "* [" stands for the bullet U+2022 followed by " [" (a TLA+     *)
(* string holds ASCII only).                                               *)
(***************************************************************************)
EXTENDS Integers, Sequences, FiniteSets, TLC

VARIABLES
    \* ---- main and the file it rewrites
    readme_exists,    \* readme_path.exists()
    readme,           \* the text of README.md on disk
    pc,               \* where main (or the function under study) stands
    readme_contents,  \* main: the text read at the start of the run
    current_stats,    \* main: the fallback record extracted from it
    rewritten,        \* main: the text being rebuilt
    releases_md,      \* main: the chunk rendered for recent_releases
    unique_releases,  \* main: the records kept by the deduplication
    \* ---- fetch_releases
    releases,         \* the records collected so far (main: the sorted list)
    rel_idx,          \* how many repositories the enumeration has yielded
    rel_failed,       \* history: the repositories whose inner handler ran
    rel_expected,     \* history: the records of the repositories that did not fail
    rel_outcome,      \* history: which return of fetch_releases was taken
    rel_discarded,    \* history: records held when the outer handler ran
    collected,        \* history: the sequence fetch_releases returned
    \* ---- fetch_github_stats
    total_stars,
    total_forks,
    st_idx,           \* how many repositories the enumeration has yielded
    stats,            \* the record fetch_github_stats returned
    stats_outcome,    \* history: which return of fetch_github_stats was taken
    partial_discarded,\* history: sums were above zero when the handler ran
    \* ---- history of one run of main
    existed_at_start, \* readme_path.exists() when main started
    remote_called,    \* whether this run made a remote request
    writes,           \* writes of README.md in this run
    subs,             \* regions substituted in this run, in order
    \* ---- replace_chunk applied on its own
    content,
    chunk,
    inline,
    result

mainVars == <<readme_exists, readme, readme_contents, current_stats, rewritten,
              releases_md, unique_releases, existed_at_start, remote_called,
              writes, subs>>
relVars == <<releases, rel_idx, rel_failed, rel_expected, rel_outcome, rel_discarded,
             collected>>
statVars == <<total_stars, total_forks, st_idx, stats, stats_outcome, partial_discarded>>
chunkVars == <<content, chunk, inline, result>>
vars == <<pc, mainVars, relVars, statVars, chunkVars>>

(***************************************************************************)
(* Bounds of the model.                                                    *)
(***************************************************************************)
NRepos == 2           \* repositories an enumeration yields at most
MaxDocPieces == 4     \* pieces of a document handed to replace_chunk alone
MaxChunkPieces == 2   \* pieces of a chunk handed to replace_chunk alone
MaxRecords == 3       \* records of an arbitrary collected sequence
NWideRepos == 7       \* repositories of a one-or-none-per-repository sequence

(***************************************************************************)
(* Program constants.                                                      *)
(***************************************************************************)
PerRepoLimit == 5     \* repo_releases[:5]
ShownLimit == 6       \* unique_releases[:6]

(***************************************************************************)
(* Sequences.                                                              *)
(***************************************************************************)
Min(a, b) == IF a <= b THEN a ELSE b

Take(s, n) == SubSeq(s, 1, Min(n, Len(s)))

Drop(s, n) == SubSeq(s, n + 1, Len(s))

RECURSIVE Flatten(_)
Flatten(ss) == IF ss = <<>> THEN <<>> ELSE Head(ss) \o Flatten(Tail(ss))

SeqsUpTo(S, n) == UNION {[1..k -> S] : k \in 0..n}

At(s, i) == IF i >= 1 /\ i <= Len(s) THEN s[i] ELSE "<eof>"

(***************************************************************************)
(* Atoms and the character classes of the regular expressions.             *)
(***************************************************************************)
Digits == <<"0", "1", "2", "3", "4", "5", "6", "7", "8", "9">>

IsDigit(a) == \E d \in 1..10 : Digits[d] = a       \* \d

DigitValue(a) == (CHOOSE d \in 1..10 : Digits[d] = a) - 1

IsSpace(a) == a \in {" ", "\n"}                    \* \s

RECURSIVE SkipSpace(_, _)
\* \s*: the index after the run of whitespace that starts at i
SkipSpace(s, i) == IF IsSpace(At(s, i)) THEN SkipSpace(s, i + 1) ELSE i

StartMarker(marker) == <<"<!--", " ", marker, " ", "starts", " ", "-->">>
EndMarker(marker) == <<"<!--", " ", marker, " ", "ends", " ", "-->">>

(***************************************************************************)
(* replace_chunk.                                                          *)
(***************************************************************************)
\* <!--\s*{marker}\s*{word}\s*--> matched at i: the index after it, or 0
MarkerEnd(s, i, marker, word) ==
    IF At(s, i) # "<!--" THEN 0
    ELSE LET j1 == SkipSpace(s, i + 1) IN
         IF At(s, j1) # marker THEN 0
         ELSE LET j2 == SkipSpace(s, j1 + 1) IN
              IF At(s, j2) # word THEN 0
              ELSE LET j3 == SkipSpace(s, j2 + 1) IN
                   IF At(s, j3) = "-->" THEN j3 + 1 ELSE 0

\* .*? with DOTALL, then the end marker: the first end marker at or after j
EndMarkerFrom(s, j, marker) ==
    LET E == {e \in j..Len(s) : MarkerEnd(s, e, marker, "ends") # 0} IN
    IF E = {} THEN 0 ELSE CHOOSE e \in E : \A f \in E : e <= f

\* the pattern matched at i: [from |-> i, body |-> <<first, last+1>>, to |-> index after], or to = 0
PatternAt(s, i, marker) ==
    LET b == MarkerEnd(s, i, marker, "starts") IN
    IF b = 0 THEN [from |-> i, bodyFrom |-> 0, bodyTo |-> 0, to |-> 0]
    ELSE LET e == EndMarkerFrom(s, b, marker) IN
         IF e = 0 THEN [from |-> i, bodyFrom |-> 0, bodyTo |-> 0, to |-> 0]
         ELSE [from |-> i, bodyFrom |-> b, bodyTo |-> e,
               to |-> MarkerEnd(s, e, marker, "ends")]

\* the leftmost match of the pattern at or after pos (to = 0: none)
SearchFrom(s, pos, marker) ==
    LET I == {i \in pos..Len(s) : PatternAt(s, i, marker).to # 0} IN
    IF I = {} THEN [from |-> 0, bodyFrom |-> 0, bodyTo |-> 0, to |-> 0]
    ELSE PatternAt(s, CHOOSE i \in I : \A k \in I : i <= k, marker)

\* Atoms by what a backslash before them means in a replacement template
\* (re's parse_template looks at the first character after the backslash).
EscLetter == {"x", "d", "m", "o", "starts", "ends", "stars", "github_stats"}
EscGroupDigit == {"9"}
EscPlain == {" ", "\n", "<!--", "-->", ",", "](", ") - ", "* [", "<br>"}

\* what re's parse_template does with a backslash followed by atom n
EscClass(n) ==
    CASE n = "\\" -> "backslash"          \* \\ is one backslash
      [] n = "g<0>" -> "group0"           \* \g<0> is the whole match
      [] n \in EscGroupDigit -> "raise"   \* invalid group reference
      [] n \in EscLetter -> "raise"       \* bad escape
      [] n = "<eof>" -> "raise"           \* bad escape (end of pattern)
      [] n \in EscPlain -> "plain"        \* the backslash stays

\* the first index of the run of backslashes that holds index i
RunStart(t, i) ==
    CHOOSE j \in 1..i : /\ \A k \in j..i : t[k] = "\\"
                        /\ (j = 1 \/ t[j - 1] # "\\")

\* t[i] is a backslash that starts an escape: parse_template reads from the
\* left, so the first, third, ... backslash of a run does
Escaping(t, i) == At(t, i) = "\\" /\ (i - RunStart(t, i)) % 2 = 0

\* the replacement string does not compile
TemplateRaises(t) ==
    \E i \in 1..Len(t) : Escaping(t, i) /\ EscClass(At(t, i + 1)) = "raise"

\* what t[i] contributes to the expansion of the template for one match
Piece(t, i, matched) ==
    IF t[i] = "\\"
    THEN IF Escaping(t, i)
         THEN (IF EscClass(At(t, i + 1)) = "group0" THEN matched ELSE <<"\\">>)
         ELSE <<>>
    ELSE IF t[i] = "g<0>" /\ Escaping(t, i - 1) THEN <<>> ELSE <<t[i]>>

RECURSIVE ConcatRange(_, _, _)
\* ps[lo] \o ... \o ps[hi]
ConcatRange(ps, lo, hi) ==
    IF lo > hi THEN <<>>
    ELSE IF lo = hi THEN ps[lo]
    ELSE LET mid == (lo + hi) \div 2 IN
         ConcatRange(ps, lo, mid) \o ConcatRange(ps, mid + 1, hi)

\* the template filled in for one match
Expand(t, matched) ==
    ConcatRange([i \in 1..Len(t) |-> Piece(t, i, matched)], 1, Len(t))

RECURSIVE SubFrom(_, _, _, _)
\* pattern.sub: every non-overlapping match, leftmost first, from pos on
SubFrom(s, pos, marker, t) ==
    LET m == SearchFrom(s, pos, marker) IN
    IF m.to = 0 THEN SubSeq(s, pos, Len(s))
    ELSE SubSeq(s, pos, m.from - 1)
         \o Expand(t, SubSeq(s, m.from, m.to - 1))
         \o SubFrom(s, m.to, marker, t)

Wrapped(c, inl) == IF inl THEN c ELSE <<"\n">> \o c \o <<"\n">>

\* replace_chunk(content, marker, chunk, inline): [raised, value]
replace_chunk(cont, marker, chnk, inl) ==
    LET replacement == StartMarker(marker) \o Wrapped(chnk, inl) \o EndMarker(marker)
    IN  IF TemplateRaises(replacement) THEN [raised |-> TRUE, value |-> <<>>]
        ELSE [raised |-> FALSE, value |-> SubFrom(cont, 1, marker, replacement)]

(***************************************************************************)
(* extract_current_stats and the formatting of the statistics.             *)
(***************************************************************************)
ZeroStats == [followers |-> 0, stars |-> 0, forks |-> 0]

RECURSIVE GroupEnds(_, _)
\* (?:,\d{3})* from e on: every index at which it can stop
GroupEnds(s, e) ==
    {e} \cup (IF /\ At(s, e) = ","
                 /\ \A j \in (e + 1)..(e + 3) : IsDigit(At(s, j))
              THEN GroupEnds(s, e + 4) ELSE {})

\* NumberEnds without the groups of thousands, as \d{1,3} alone would match
NumberEndsNoGroups(s, i) ==
    {i + k : k \in {n \in 1..3 : \A j \in i..(i + n - 1) : IsDigit(At(s, j))}}

\* \d{1,3}(?:,\d{3})* from i on: every index at which it can stop
NumberEnds(s, i) ==
    UNION {GroupEnds(s, i + k) :
             k \in {n \in 1..3 : \A j \in i..(i + n - 1) : IsDigit(At(s, j))}}

\* the index after \s*{word} from e on, or 0
AfterWord(s, e, word) ==
    LET j == SkipSpace(s, e) IN IF At(s, j) = word THEN j + 1 ELSE 0

\* the index after \s*{word},\s* from e on, or 0
AfterWordComma(s, e, word) ==
    LET j == AfterWord(s, e, word) IN
    IF j # 0 /\ At(s, j) = "," THEN SkipSpace(s, j + 1) ELSE 0

\* (\d...)\s*forks from i3 on: the groups <<from, to>> that match
ForksMatches(s, i3) ==
    {<<<<i3, e3>>>> : e3 \in {e \in NumberEnds(s, i3) : AfterWord(s, e, "forks") # 0}}

\* (\d...)\s*stars,\s*(\d...)\s*forks from i2 on
StarsMatches(s, i2) ==
    UNION {{<<<<i2, e2>>>> \o m : m \in ForksMatches(s, AfterWordComma(s, e2, "stars"))} :
             e2 \in NumberEnds(s, i2)}

\* the whole pattern matched at i: the three groups, each <<from, to>>.
\* A number must stop where whitespace or the word begins, so at most one
\* choice of ends matches and the backtracking order does not matter.
StatsMatchesAt(s, i) ==
    UNION {{<<<<i, e1>>>> \o m : m \in StarsMatches(s, AfterWordComma(s, e1, "followers"))} :
             e1 \in NumberEnds(s, i)}

RECURSIVE ParseIntFrom(_, _)
ParseIntFrom(ds, acc) ==
    IF ds = <<>> THEN acc
    ELSE ParseIntFrom(Tail(ds), acc * 10 + DigitValue(Head(ds)))

\* group.replace(',', '')
StripCommas(g) == SelectSeq(g, LAMBDA a : a # ",")

\* int(match.group(n).replace(',', ''))
GroupInt(g) == ParseIntFrom(StripCommas(g), 0)

extract_current_stats(doc) ==
    LET I == {i \in 1..Len(doc) : StatsMatchesAt(doc, i) # {}} IN
    IF I = {} THEN ZeroStats
    ELSE LET i0 == CHOOSE i \in I : \A k \in I : i <= k
             m == CHOOSE x \in StatsMatchesAt(doc, i0) : TRUE
             G(n) == SubSeq(doc, m[n][1], m[n][2] - 1)
         IN  [followers |-> GroupInt(G(1)), stars |-> GroupInt(G(2)),
              forks |-> GroupInt(G(3))]

RECURSIVE FormatInt(_)
\* "{}".format(n), n >= 0
FormatInt(n) ==
    IF n < 10 THEN <<Digits[n + 1]>>
    ELSE FormatInt(n \div 10) \o <<Digits[(n % 10) + 1]>>

RECURSIVE FormatThousands(_)
\* "{:,}".format(n), n >= 0
FormatThousands(n) ==
    IF n < 1000 THEN FormatInt(n)
    ELSE FormatThousands(n \div 1000)
         \o <<",", Digits[((n \div 100) % 10) + 1], Digits[((n \div 10) % 10) + 1],
              Digits[(n % 10) + 1]>>

\* "{:,} followers, {:,} stars, {:,} forks".format(...)
StatsText(st) ==
    FormatThousands(st.followers) \o <<" ", "followers", ",", " ">>
    \o FormatThousands(st.stars) \o <<" ", "stars", ",", " ">>
    \o FormatThousands(st.forks) \o <<" ", "forks">>

(***************************************************************************)
(* What the remote service answers.                                        *)
(***************************************************************************)
RepoNames == <<"r1", "r2", "r3", "r4", "r5", "r6", "r7", "r8", "r9">>
RepoUrls == <<"h1", "h2", "h3", "h4", "h5", "h6", "h7", "h8", "h9">>

\* the i-th repository of an enumeration
Repo(i) == [name |-> RepoNames[i], html_url |-> RepoUrls[i], description |-> ""]

\* published_at of a release: NoDate (None) or a day, numbered in time order
NoDate == 0
DateStr == <<"2024-01-01", "2024-06-01">>
Days == {NoDate} \cup (1..Len(DateStr))

Rel(title, tag, day, url) ==
    [title |-> title, tag_name |-> tag, published_at |-> day, html_url |-> url]

\* the release lists a repository of main may have (API order)
MainLists(repo) ==
    {<<>>,
     <<Rel(<<repo.name, " ", "1.0">>, "t1", 1, "u1"), Rel(<<>>, "t2", 2, "u2")>>,
     <<Rel(<<"\\", "d">>, "t3", NoDate, "u3")>>}

SixReleases ==
    <<Rel(<<"1.0">>, "t1", 2, "u1"), Rel(<<"1.0">>, "t2", 2, "u2"),
      Rel(<<"1.0">>, "t3", 1, "u3"), Rel(<<"1.0">>, "t4", 1, "u4"),
      Rel(<<"1.0">>, "t5", 1, "u5"), Rel(<<"1.0">>, "t6", 1, "u6")>>

\* the release lists of fetch_releases studied on its own
FetchLists(repo) == MainLists(repo) \cup {SixReleases}

\* stargazers_count and forks_count of a repository
RepoCounts == {[stars |-> 0, forks |-> 0], [stars |-> 617, forks |-> 500]}

\* user.followers
FollowerCounts == {0, 1234567}

(***************************************************************************)
(* fetch_releases.                                                         *)
(***************************************************************************)
RECURSIVE StripLeft(_)
StripLeft(t) == IF t # <<>> /\ IsSpace(Head(t)) THEN StripLeft(Tail(t)) ELSE t

RECURSIVE StripRight(_)
StripRight(t) ==
    IF t # <<>> /\ IsSpace(t[Len(t)]) THEN StripRight(SubSeq(t, 1, Len(t) - 1)) ELSE t

\* release.title.replace(repo.name, "").strip() if release.title else release.tag_name
ReleaseLabel(rel, repo) ==
    IF rel.title # <<>>
    THEN StripRight(StripLeft(SelectSeq(rel.title, LAMBDA a : a # repo.name)))
    ELSE <<rel.tag_name>>

\* release.published_at.strftime("%Y-%m-%d") if release.published_at else ""
PublishedAt(rel) == IF rel.published_at = NoDate THEN "" ELSE DateStr[rel.published_at]

ReleaseRecord(repo, rel) ==
    [repo |-> repo.name, repo_url |-> repo.html_url, description |-> repo.description,
     release |-> ReleaseLabel(rel, repo), published_at |-> PublishedAt(rel),
     url |-> rel.html_url]

\* the records of rels, in order
Records(repo, rels) == [i \in 1..Len(rels) |-> ReleaseRecord(repo, rels[i])]

\* repo.fork is true: continue
RelSkipFork ==
    /\ pc = "releases"
    /\ rel_idx < NRepos
    /\ rel_idx' = rel_idx + 1
    /\ remote_called' = TRUE
    /\ UNCHANGED <<pc, releases, rel_failed, rel_expected, rel_outcome, rel_discarded, collected, statVars, chunkVars,
                   readme_exists, readme, readme_contents, current_stats, rewritten,
                   releases_md, unique_releases, existed_at_start, writes, subs>>

\* the repository's releases are listed and the first 5 become records
RelRepoOk(served) ==
    /\ pc = "releases"
    /\ rel_idx < NRepos
    /\ rel_idx' = rel_idx + 1
    /\ releases' = releases \o Records(Repo(rel_idx + 1), Take(served, PerRepoLimit))
    /\ rel_expected' = rel_expected \o Records(Repo(rel_idx + 1), Take(served, PerRepoLimit))
    /\ remote_called' = TRUE
    /\ UNCHANGED <<pc, rel_failed, rel_outcome, rel_discarded, collected, statVars, chunkVars,
                   readme_exists, readme, readme_contents, current_stats, rewritten,
                   releases_md, unique_releases, existed_at_start, writes, subs>>

\* repo.get_releases() raises: the inner handler logs and continues
RelListFail ==
    /\ pc = "releases"
    /\ rel_idx < NRepos
    /\ rel_idx' = rel_idx + 1
    /\ rel_failed' = rel_failed \cup {Repo(rel_idx + 1).name}
    /\ remote_called' = TRUE
    /\ UNCHANGED <<pc, releases, rel_expected, rel_outcome, rel_discarded, collected, statVars, chunkVars,
                   readme_exists, readme, readme_contents, current_stats, rewritten,
                   releases_md, unique_releases, existed_at_start, writes, subs>>

\* what the loop over repo_releases[:5] has appended when building record k raises
AppendedBeforeFailure(repo, served, k) == Records(repo, Take(served, k - 1))

\* reading a field of the k-th release raises: the inner handler logs and continues
RelRecordFail(served, k) ==
    /\ pc = "releases"
    /\ rel_idx < NRepos
    /\ k \in 1..Min(Len(served), PerRepoLimit)
    /\ rel_idx' = rel_idx + 1
    /\ releases' = releases \o AppendedBeforeFailure(Repo(rel_idx + 1), served, k)
    /\ rel_failed' = rel_failed \cup {Repo(rel_idx + 1).name}
    /\ remote_called' = TRUE
    /\ UNCHANGED <<pc, rel_expected, rel_outcome, rel_discarded, collected, statVars, chunkVars,
                   readme_exists, readme, readme_contents, current_stats, rewritten,
                   releases_md, unique_releases, existed_at_start, writes, subs>>

\* OuterHandlerResult keeping what was collected
OuterHandlerKeeps(rels) == rels

\* what the outer handler of fetch_releases returns
OuterHandlerResult(rels) == <<>>

\* a failure outside the inner try (client, identity, enumeration, repo.fork,
\* the inner handler's own log line): the outer handler returns and the
\* locals of the call are gone
RelEnumFail ==
    /\ pc = "releases"
    /\ releases' = OuterHandlerResult(releases)
    /\ collected' = releases'
    /\ rel_discarded' = Len(releases)
    /\ rel_outcome' = "failed"
    /\ rel_idx' = 0 /\ rel_failed' = {} /\ rel_expected' = <<>>
    /\ remote_called' = TRUE
    /\ pc' = "sort_releases"
    /\ UNCHANGED <<statVars, chunkVars,
                   readme_exists, readme, readme_contents, current_stats, rewritten,
                   releases_md, unique_releases, existed_at_start, writes, subs>>

\* the enumeration ends: return releases
RelReturn ==
    /\ pc = "releases"
    /\ collected' = releases
    /\ rel_outcome' = "returned"
    /\ rel_idx' = 0
    /\ remote_called' = TRUE
    /\ pc' = "sort_releases"
    /\ UNCHANGED <<releases, rel_failed, rel_expected, rel_discarded, statVars, chunkVars,
                   readme_exists, readme, readme_contents, current_stats, rewritten,
                   releases_md, unique_releases, existed_at_start, writes, subs>>

(***************************************************************************)
(* main: sort, deduplication, rendering.                                   *)
(***************************************************************************)
\* the order of the strings "" < "2024-01-01" < "2024-06-01"
DateRank(d) == IF d = "" THEN 0 ELSE CHOOSE i \in 1..Len(DateStr) : DateStr[i] = d

RECURSIVE InsertDesc(_, _)
\* r placed after every record whose date is not earlier
InsertDesc(sorted, r) ==
    IF sorted = <<>> THEN <<r>>
    ELSE IF DateRank(Head(sorted).published_at) >= DateRank(r.published_at)
         THEN <<Head(sorted)>> \o InsertDesc(Tail(sorted), r)
         ELSE <<r>> \o sorted

RECURSIVE SortFrom(_, _)
SortFrom(rels, sorted) ==
    IF rels = <<>> THEN sorted ELSE SortFrom(Tail(rels), InsertDesc(sorted, Head(rels)))

\* SortByDateDesc leaving the order as collected
SortKeepsOrder(rels) == rels

\* releases.sort(key=lambda r: r["published_at"], reverse=True): stable
SortByDateDesc(rels) == SortFrom(rels, <<>>)

RECURSIVE DedupFrom(_, _)
DedupFrom(rels, seen_repos) ==
    IF rels = <<>> THEN <<>>
    ELSE IF Head(rels).repo \notin seen_repos
         THEN <<Head(rels)>> \o DedupFrom(Tail(rels), seen_repos \cup {Head(rels).repo})
         ELSE DedupFrom(Tail(rels), seen_repos)

\* the loop building unique_releases
DedupByRepo(rels) == DedupFrom(rels, {})

\* ShownReleases without the truncation
ShownAll(unique) == unique

\* unique_releases[:6]
ShownReleases(unique) == Take(unique, ShownLimit)

Placeholder == "* No releases yet"

\* "* [{repo} {release}]({url}) - {published_at}".format(**release)
BulletLine(r) ==
    <<"* [", r.repo, " ">> \o r.release \o <<"](", r.url, ") - ">>
    \o (IF r.published_at = "" THEN <<>> ELSE <<r.published_at>>)

\* "<br>".join(lines)
JoinBr(lines) ==
    ConcatRange([i \in 1..Len(lines) |->
                    IF i = 1 THEN lines[i] ELSE <<"<br>">> \o lines[i]], 1, Len(lines))

ReleasesMd(unique) ==
    IF unique # <<>>
    THEN JoinBr([i \in 1..Len(ShownReleases(unique)) |-> BulletLine(ShownReleases(unique)[i])])
    ELSE <<Placeholder>>

(***************************************************************************)
(* fetch_github_stats.                                                     *)
(***************************************************************************)
\* FallbackRecord ignoring the record supplied
FallbackZeros(supplied) == ZeroStats

\* current_stats or {'stars': 0, 'forks': 0, 'followers': 0}; supplied is
\* <<>> for None and <<record>> for a record (a dict of three keys is true)
FallbackRecord(supplied) == IF supplied # <<>> THEN supplied[1] ELSE ZeroStats

\* repo.fork is true: nothing is added
StatsSkipFork ==
    /\ pc = "stats"
    /\ st_idx < NRepos
    /\ st_idx' = st_idx + 1
    /\ remote_called' = TRUE
    /\ UNCHANGED <<pc, total_stars, total_forks, stats, stats_outcome, partial_discarded,
                   relVars, chunkVars,
                   readme_exists, readme, readme_contents, current_stats, rewritten,
                   releases_md, unique_releases, existed_at_start, writes, subs>>

\* total_stars += repo.stargazers_count; total_forks += repo.forks_count
StatsRepo(counts) ==
    /\ pc = "stats"
    /\ st_idx < NRepos
    /\ st_idx' = st_idx + 1
    /\ total_stars' = total_stars + counts.stars
    /\ total_forks' = total_forks + counts.forks
    /\ remote_called' = TRUE
    /\ UNCHANGED <<pc, stats, stats_outcome, partial_discarded, relVars, chunkVars,
                   readme_exists, readme, readme_contents, current_stats, rewritten,
                   releases_md, unique_releases, existed_at_start, writes, subs>>

\* any failure (client, identity, enumeration, a count, the follower count):
\* the handler returns and the locals of the call are gone
StatsFail ==
    /\ pc = "stats"
    /\ stats' = FallbackRecord(<<current_stats>>)
    /\ stats_outcome' = "failed"
    /\ partial_discarded' = (total_stars > 0 \/ total_forks > 0)
    /\ total_stars' = 0 /\ total_forks' = 0 /\ st_idx' = 0
    /\ remote_called' = TRUE
    /\ pc' = "format_stats"
    /\ UNCHANGED <<relVars, chunkVars,
                   readme_exists, readme, readme_contents, current_stats, rewritten,
                   releases_md, unique_releases, existed_at_start, writes, subs>>

\* the enumeration ends and user.followers is read
StatsReturn(followers) ==
    /\ pc = "stats"
    /\ stats' = [stars |-> total_stars, forks |-> total_forks, followers |-> followers]
    /\ stats_outcome' = "returned"
    /\ total_stars' = 0 /\ total_forks' = 0 /\ st_idx' = 0
    /\ remote_called' = TRUE
    /\ pc' = "format_stats"
    /\ UNCHANGED <<partial_discarded, relVars, chunkVars,
                   readme_exists, readme, readme_contents, current_stats, rewritten,
                   releases_md, unique_releases, existed_at_start, writes, subs>>

(***************************************************************************)
(* main.                                                                   *)
(***************************************************************************)
\* ReadmeMissing without the test
ReadmeMissingNever == FALSE

\* not readme_path.exists()
ReadmeMissing == ~readme_exists

\* the start of main, up to the call of fetch_releases
MainStart ==
    /\ pc = "idle"
    /\ existed_at_start' = readme_exists
    /\ IF ReadmeMissing
       THEN /\ pc' = "done"
            /\ UNCHANGED <<readme_contents, current_stats>>
       ELSE /\ readme_contents' = readme
            /\ current_stats' = extract_current_stats(readme)
            /\ pc' = "releases"
    /\ UNCHANGED <<readme_exists, readme, rewritten, releases_md, unique_releases,
                   remote_called, writes, subs, relVars, statVars, chunkVars>>

\* releases.sort(...) and the deduplication loop (the history of the call of
\* fetch_releases is dropped)
MainSortDedup ==
    /\ pc = "sort_releases"
    /\ releases' = SortByDateDesc(releases)
    /\ unique_releases' = DedupByRepo(releases')
    /\ rel_failed' = {} /\ rel_expected' = <<>>
    /\ pc' = "format_releases"
    /\ UNCHANGED <<rel_idx, rel_outcome, rel_discarded, collected, statVars,
                   chunkVars, readme_exists, readme, readme_contents, current_stats,
                   rewritten, releases_md, existed_at_start, remote_called, writes, subs>>

\* releases_md and the substitution of recent_releases, up to the call of
\* fetch_github_stats; a raise of replace_chunk ends main. The locals of
\* fetch_releases and the sorted list are not read again: the model forgets them.
MainFormatReleases ==
    /\ pc = "format_releases"
    /\ releases_md' = ReleasesMd(unique_releases)
    /\ LET r == replace_chunk(readme_contents, "recent_releases", releases_md', FALSE) IN
       IF r.raised
       THEN /\ pc' = "crashed"
            /\ UNCHANGED <<rewritten, subs>>
       ELSE /\ pc' = "stats"
            /\ rewritten' = r.value
            /\ subs' = Append(subs, "recent_releases")
    /\ releases' = <<>> /\ collected' = <<>>
    /\ UNCHANGED <<rel_idx, rel_failed, rel_expected, rel_outcome, rel_discarded,
                   unique_releases, statVars,
                   chunkVars, readme_exists, readme, readme_contents, current_stats,
                   existed_at_start, remote_called, writes>>

\* stats_text, the substitution of github_stats and the write of README.md
MainFormatStats ==
    /\ pc = "format_stats"
    /\ LET r == replace_chunk(rewritten, "github_stats", StatsText(stats), TRUE) IN
       IF r.raised
       THEN /\ pc' = "crashed"
            /\ UNCHANGED <<rewritten, subs, readme, readme_exists, writes>>
       ELSE /\ pc' = "done"
            /\ rewritten' = r.value
            /\ subs' = Append(subs, "github_stats")
            /\ readme' = r.value
            /\ readme_exists' = TRUE
            /\ writes' = writes + 1
    /\ UNCHANGED <<readme_contents, current_stats, releases_md, unique_releases,
                   existed_at_start, remote_called, relVars, statVars, chunkVars>>

NoRelease == /\ releases = <<>> /\ rel_idx = 0 /\ rel_failed = {} /\ rel_expected = <<>>
             /\ rel_outcome = "none" /\ rel_discarded = 0 /\ collected = <<>>

NoStats == /\ total_stars = 0 /\ total_forks = 0 /\ st_idx = 0
           /\ stats = ZeroStats /\ stats_outcome = "none" /\ partial_discarded = FALSE

NoChunk == /\ content = <<>> /\ chunk = <<>> /\ inline = FALSE
           /\ result = [raised |-> FALSE, value |-> <<>>]

NoRun == /\ readme_contents = <<>> /\ current_stats = ZeroStats /\ rewritten = <<>>
         /\ releases_md = <<>> /\ unique_releases = <<>> /\ existed_at_start = FALSE
         /\ remote_called = FALSE /\ writes = 0 /\ subs = <<>>

\* the process ends and the schedule starts the next one: nothing but the file is kept
NextRun ==
    /\ pc \in {"done", "crashed"}
    /\ pc' = "idle"
    /\ releases' = <<>> /\ rel_idx' = 0 /\ rel_failed' = {} /\ rel_expected' = <<>>
    /\ rel_outcome' = "none" /\ rel_discarded' = 0 /\ collected' = <<>>
    /\ total_stars' = 0 /\ total_forks' = 0 /\ st_idx' = 0
    /\ stats' = ZeroStats /\ stats_outcome' = "none" /\ partial_discarded' = FALSE
    /\ readme_contents' = <<>> /\ current_stats' = ZeroStats /\ rewritten' = <<>>
    /\ releases_md' = <<>> /\ unique_releases' = <<>> /\ existed_at_start' = FALSE
    /\ remote_called' = FALSE /\ writes' = 0 /\ subs' = <<>>
    /\ UNCHANGED <<readme_exists, readme, chunkVars>>

\* a profile document with its two regions
Profile(statsBody, releasesBody) ==
    <<"x", "\n">> \o StartMarker("github_stats") \o statsBody \o EndMarker("github_stats")
    \o <<"\n">> \o StartMarker("recent_releases") \o releasesBody
    \o EndMarker("recent_releases") \o <<"\n", "x">>

FirstProfile == Profile(StatsText(ZeroStats), <<"\n", Placeholder, "\n">>)

Init ==
    /\ pc = "idle"
    /\ \/ readme_exists = FALSE /\ readme = <<>>
       \/ readme_exists = TRUE /\ readme \in {FirstProfile, <<"x">>}
    /\ NoRun /\ NoRelease /\ NoStats /\ NoChunk

Next ==
    \/ MainStart
    \/ RelSkipFork
    \/ \E l \in MainLists(Repo(rel_idx + 1)) : RelRepoOk(l)
    \/ RelListFail
    \/ \E l \in MainLists(Repo(rel_idx + 1)) : \E k \in 1..PerRepoLimit : RelRecordFail(l, k)
    \/ RelEnumFail
    \/ RelReturn
    \/ MainSortDedup
    \/ MainFormatReleases
    \/ StatsSkipFork
    \/ \E c \in RepoCounts : StatsRepo(c)
    \/ StatsFail
    \/ \E f \in FollowerCounts : StatsReturn(f)
    \/ MainFormatStats
    \/ NextRun

Spec == Init /\ [][Next]_vars

(***************************************************************************)
(* fetch_releases on its own, with a repository of six releases.           *)
(***************************************************************************)
FetchInit ==
    /\ pc = "releases"
    /\ readme_exists = TRUE /\ readme = FirstProfile
    /\ readme_contents = FirstProfile /\ current_stats = ZeroStats /\ rewritten = <<>>
    /\ releases_md = <<>> /\ unique_releases = <<>> /\ existed_at_start = TRUE
    /\ remote_called = FALSE /\ writes = 0 /\ subs = <<>>
    /\ NoRelease /\ NoStats /\ NoChunk

FetchNext ==
    \/ RelSkipFork
    \/ \E l \in FetchLists(Repo(rel_idx + 1)) : RelRepoOk(l)
    \/ RelListFail
    \/ \E l \in FetchLists(Repo(rel_idx + 1)) : \E k \in 1..PerRepoLimit : RelRecordFail(l, k)
    \/ RelEnumFail
    \/ RelReturn

SpecFetch == FetchInit /\ [][FetchNext]_vars

(***************************************************************************)
(* The sort, the deduplication and the rendering on their own: every       *)
(* sequence of at most MaxRecords records of NRepos repositories, and       *)
(* every sequence of at most one record for each of NWideRepos.            *)
(***************************************************************************)
PlainRecord(i, day) == ReleaseRecord(Repo(i), Rel(<<"1.0">>, "t1", day, "u1"))

NarrowRecords == {PlainRecord(i, d) : i \in 1..NRepos, d \in Days}

RECURSIVE WideFrom(_, _)
\* the records of repositories i..NWideRepos, choice[i] being a day or 0 for no record
WideFrom(choice, i) ==
    IF i > NWideRepos THEN <<>>
    ELSE (IF choice[i] = 0 THEN <<>> ELSE <<PlainRecord(i, choice[i])>>)
         \o WideFrom(choice, i + 1)

PipelineInit ==
    /\ pc = "sort_releases"
    /\ \/ releases \in SeqsUpTo(NarrowRecords, MaxRecords)
       \/ \E choice \in [1..NWideRepos -> 0..Len(DateStr)] : releases = WideFrom(choice, 1)
    /\ collected = releases
    /\ rel_idx = 0 /\ rel_failed = {} /\ rel_expected = releases
    /\ rel_outcome = "returned" /\ rel_discarded = 0
    /\ readme_exists = TRUE /\ readme = FirstProfile
    /\ readme_contents = FirstProfile /\ current_stats = ZeroStats /\ rewritten = <<>>
    /\ releases_md = <<>> /\ unique_releases = <<>> /\ existed_at_start = TRUE
    /\ remote_called = TRUE /\ writes = 0 /\ subs = <<>>
    /\ NoStats /\ NoChunk

PipelineNext == MainSortDedup \/ MainFormatReleases

SpecReleases == PipelineInit /\ [][PipelineNext]_vars

(***************************************************************************)
(* replace_chunk on its own: every document and chunk built of at most     *)
(* MaxDocPieces and MaxChunkPieces pieces.                                 *)
(***************************************************************************)
CompactStart == <<"<!--", "m", "starts", "-->">>

DocPieces == {<<"x">>, StartMarker("m"), CompactStart, EndMarker("m")}

ChunkPieces == {<<"x">>, <<"\\">>, <<"9">>, <<"g<0>">>, EndMarker("m")}

ChunkInit ==
    /\ pc = "chunk"
    /\ \E d \in SeqsUpTo(DocPieces, MaxDocPieces) : content = Flatten(d)
    /\ \E c \in SeqsUpTo(ChunkPieces, MaxChunkPieces) : chunk = Flatten(c)
    /\ inline \in BOOLEAN
    /\ result = [raised |-> FALSE, value |-> <<>>]
    /\ readme_exists = FALSE /\ readme = <<>>
    /\ NoRun /\ NoRelease /\ NoStats

ReplaceChunk ==
    /\ pc = "chunk"
    /\ result' = replace_chunk(content, "m", chunk, inline)
    /\ pc' = "chunk_done"
    /\ UNCHANGED <<mainVars, relVars, statVars, content, chunk, inline>>

ChunkNext == ReplaceChunk

SpecChunk == ChunkInit /\ [][ChunkNext]_vars

(***************************************************************************)
(* Properties.                                                             *)
(***************************************************************************)
HasRegion(doc, marker) == SearchFrom(doc, 1, marker).to # 0

\* the text between the start and the end marker of the first region
RegionBody(doc, marker) ==
    LET m == SearchFrom(doc, 1, marker) IN SubSeq(doc, m.bodyFrom, m.bodyTo - 1)

PlaceholderBody == <<"\n", Placeholder, "\n">>

\* C1: when fetch_github_stats returns through its handler, the record it
\* returns is the fallback record it was given, whatever sums it had reached.
C1_FallbackReturnedExactly ==
    (pc = "format_stats" /\ stats_outcome = "failed") => stats = current_stats

C1_Witness ==
    /\ pc = "format_stats" /\ stats_outcome = "failed"
    /\ partial_discarded
    /\ current_stats.followers > 0 /\ current_stats.stars > 0

\* C2: the sequence fetch_releases returns holds no record of a repository
\* whose processing failed, and holds the records of all the others.
C2_FailedRepoLeavesNoRecord ==
    (pc = "sort_releases" /\ rel_outcome = "returned") =>
        /\ \A i \in 1..Len(collected) : collected[i].repo \notin rel_failed
        /\ collected = rel_expected

ReposOf(rels) == {rels[i].repo : i \in 1..Len(rels)}

LatestRank(rels, repo) ==
    LET R == {DateRank(rels[i].published_at) : i \in {j \in 1..Len(rels) : rels[j].repo = repo}}
    IN  CHOOSE x \in R : \A y \in R : y <= x

\* C3: after the sort and the deduplication there is exactly one record for
\* each repository that had a record, it is one of the collected records, its
\* date is the latest of that repository's dates, and the records are in
\* non-increasing date order.
C3_OneLatestRecordPerRepo ==
    pc = "format_releases" =>
        /\ ReposOf(unique_releases) = ReposOf(collected)
        /\ \A r \in ReposOf(collected) :
             /\ Cardinality({j \in 1..Len(unique_releases) : unique_releases[j].repo = r}) = 1
             /\ \A j \in 1..Len(unique_releases) :
                  unique_releases[j].repo = r =>
                     DateRank(unique_releases[j].published_at) = LatestRank(collected, r)
        /\ \A j \in 1..Len(unique_releases) :
             \E i \in 1..Len(collected) : collected[i] = unique_releases[j]
        /\ \A j \in 1..(Len(unique_releases) - 1) :
             DateRank(unique_releases[j].published_at)
                >= DateRank(unique_releases[j + 1].published_at)

C3_Witness ==
    /\ pc = "format_releases"
    /\ Len(unique_releases) >= 2
    /\ \E i, j \in 1..Len(collected) :
         /\ i < j /\ collected[i].repo = collected[j].repo
         /\ DateRank(collected[i].published_at) < DateRank(collected[j].published_at)
    /\ \E i \in 1..Len(collected) : collected[i].published_at = ""

Bullets(md) == Cardinality({i \in 1..Len(md) : md[i] = "* ["})

\* C4: the chunk put into recent_releases lists the first min(6, n) of the n
\* deduplicated records, one line each, so never more than 6 and never one
\* dated earlier than a record left out; with n = 0 it is the placeholder.
C4_FirstSixListed ==
    pc = "stats" =>
        LET n == Len(unique_releases)
            k == IF n < 6 THEN n ELSE 6
        IN  /\ RegionBody(rewritten, "recent_releases") = <<"\n">> \o releases_md \o <<"\n">>
            /\ IF n = 0 THEN releases_md = <<Placeholder>>
               ELSE /\ Bullets(releases_md) = k
                    /\ releases_md = JoinBr([i \in 1..k |-> BulletLine(unique_releases[i])])
                    /\ \A i \in 1..k : \A j \in (k + 1)..n :
                         DateRank(unique_releases[j].published_at)
                            <= DateRank(unique_releases[i].published_at)

C4_Witness ==
    /\ pc = "stats"
    /\ Len(unique_releases) > 6
    /\ Bullets(releases_md) = 6

\* C5: substituting a region with a chunk and reading the region back gives
\* the chunk (between newlines when not inline).
C5_RoundTrip ==
    (pc = "chunk_done" /\ HasRegion(content, "m")) =>
        /\ ~result.raised
        /\ HasRegion(result.value, "m")
        /\ RegionBody(result.value, "m") = Wrapped(chunk, inline)

\* C6: the text before the region's start marker and after its end marker is
\* the same in the output, and a document without the region is returned as is.
C6_Frame ==
    pc = "chunk_done" =>
        LET m == SearchFrom(content, 1, "m")
            after == Len(content) - m.to + 1
            out == result.value
        IN  /\ ~result.raised
            /\ IF m.to = 0 THEN out = content
               ELSE /\ Len(out) >= (m.from - 1) + after
                    /\ SubSeq(out, 1, m.from - 1) = SubSeq(content, 1, m.from - 1)
                    /\ SubSeq(out, Len(out) - after + 1, Len(out))
                          = SubSeq(content, m.to, Len(content))

\* C7: a run that finds no document ends without a remote call, without a
\* substitution, and without writing or creating the document.
C7_MissingInputNoActivity ==
    (pc # "idle" /\ ~existed_at_start) =>
        /\ pc = "done"
        /\ ~remote_called
        /\ writes = 0 /\ subs = <<>>
        /\ ~readme_exists /\ readme = <<>>

C7_Witness == pc = "done" /\ ~existed_at_start /\ ~readme_exists

\* C8: a run that finds the document never ends before its last step, and
\* writes the document once, after both substitutions and not before.
C8_RunAlwaysWritesOnce ==
    (pc # "idle" /\ existed_at_start) =>
        /\ pc # "crashed"
        /\ pc = "done" => (writes = 1 /\ subs = <<"recent_releases", "github_stats">>)
        /\ pc # "done" => writes = 0

\* the region displays three numbers
DisplaysStats(doc) ==
    /\ HasRegion(doc, "github_stats")
    /\ LET b == RegionBody(doc, "github_stats") IN
       /\ b # <<>> /\ IsDigit(b[1])
       /\ \E i \in 1..Len(b) : b[i] = "followers"
       /\ \E i \in 1..Len(b) : b[i] = "stars"
       /\ b[Len(b)] = "forks"

\* C9: a run whose statistics fetch failed writes a document whose
\* github_stats region reads as it read before the run.
C9_FailedFetchKeepsDisplayedStats ==
    (pc = "done" /\ writes = 1 /\ stats_outcome = "failed" /\ DisplaysStats(readme_contents)) =>
        /\ HasRegion(readme, "github_stats")
        /\ RegionBody(readme, "github_stats") = RegionBody(readme_contents, "github_stats")

C9_Witness ==
    /\ pc = "done" /\ writes = 1 /\ stats_outcome = "failed"
    /\ DisplaysStats(readme_contents)
    /\ RegionBody(readme_contents, "github_stats")
         = StatsText([followers |-> 1234567, stars |-> 1234, forks |-> 1000])

\* C10: when fetch_releases returns through its outer handler it returns the
\* empty sequence, and the run writes the placeholder line into
\* recent_releases in place of what was displayed.
C10_EnumerationFailureShowsPlaceholder ==
    rel_outcome = "failed" =>
        /\ pc # "crashed"
        /\ pc = "sort_releases" => (collected = <<>> /\ releases = <<>>)
        /\ pc = "format_releases" => unique_releases = <<>>
        /\ pc \in {"stats", "format_stats", "done"} => releases_md = <<Placeholder>>
        /\ (pc = "done" /\ HasRegion(readme_contents, "recent_releases")) =>
              /\ writes = 1
              /\ RegionBody(readme, "recent_releases") = PlaceholderBody

C10_Witness ==
    /\ pc = "done" /\ rel_outcome = "failed" /\ rel_discarded > 0
    /\ HasRegion(readme_contents, "recent_releases")
    /\ RegionBody(readme_contents, "recent_releases") # PlaceholderBody
    /\ RegionBody(readme, "recent_releases") = PlaceholderBody

====
